---- MODULE Spec2Model ----
(***************************************************************************)
(* Model of BlockchainDemoPY.py: Transaction (sign / is_valid), Block      *)
(* (compute_hash / mine / validate_transactions) and Chain (pool, append,  *)
(* validate_chain).                                                        *)
(*                                                                         *)
(* Strings are TLA+ strings, so every concatenation of the source is a     *)
(* real concatenation.  hashlib.sha256(s).hexdigest() is an external       *)
(* library: it is modelled as a collision-free function of its input whose *)
(* number of leading '0' characters is a deterministic, nonce-dependent    *)
(* function of the input (Sha256 below).  ECDSA is modelled symbolically:  *)
(* a signature records the key, the signed message and the random value    *)
(* drawn by the signer.                                                    *)
(*                                                                         *)
(* Block objects have identity (the heap `blocks`, the chain holds ids), a *)
(* Transaction is held by value by the pool or block that contains it.     *)
(* While mine_transaction_pool runs, its new block and the pool are one    *)
(* list object: `workers` records that, and an append to the pool is then  *)
(* an append to the block's transactions as well.                          *)
(***************************************************************************)
EXTENDS Integers, Sequences, FiniteSets, TLC

VARIABLES
    tx,          \* the Transaction object the caller is preparing
    blocks,      \* heap of Block objects: id -> fields
    nblocks,     \* number of Block objects constructed so far
    chain,       \* Chain.chain: sequence of Block ids
    pool,        \* Chain.transaction_pool: sequence of Transactions
    difficulty,  \* Chain.difficulty
    ntamper,     \* number of direct field writes the caller has made
    ncalls,      \* number of calls made so far
    workers,     \* each thread's position in the Chain call it is running
    accepted,    \* the transactions add_transaction has accepted, in order
    last         \* the last completed call: name, arguments, outcome, state before

vars == <<tx, blocks, nblocks, chain, pool, difficulty, ntamper, ncalls, workers,
          accepted, last>>

----------------------------------------------------------------------------
(* Bounds *)
MaxBlocks == 3        \* Block objects ever constructed (genesis included)
MaxChain == 3         \* length of Chain.chain
MaxPool == 2          \* length of Chain.transaction_pool
MaxDifficulty == 2    \* largest difficulty passed to set_difficulty
MaxNonce == 12        \* cap of the nonce search
MaxTamper == 1        \* direct field writes by the caller
MaxCalls == 3         \* calls made on one chain
MaxWorkers == 2       \* threads calling into one chain

(* Input domains *)
None == "<None>"                      \* Python's None (no address equals it)
Keys == {"k1", "k2"}
address(k) == IF k = "k1" THEN "A1" ELSE "A2"     \* generate_key_pair
Senders == {None, "", "A1", "zz"}
Recipients == {"B", "B1"}
Amounts == {0, 10}
Timestamps == {1, 2}                  \* values a caller writes into Block.timestamp
Randoms == {0, 1}                     \* the per-signature random value of ECDSA
\* the domains used where whole chains are explored
ChainRecipients == {"", "B"}
ChainRandoms == {0}
TamperedNonces == {1, 3}
miner_reward == 50
RewardAddresses == {"M"}

----------------------------------------------------------------------------
(* hashlib.sha256(...).hexdigest() *)

Digit(c) ==
    CASE c = "0" -> 0 [] c = "1" -> 1 [] c = "2" -> 2 [] c = "3" -> 3
      [] c = "4" -> 4 [] c = "5" -> 5 [] c = "6" -> 6 [] c = "7" -> 7
      [] c = "8" -> 8 [] c = "9" -> 9 [] OTHER -> 0

CharAt(s, i) == IF 1 <= i /\ i <= Len(s) THEN SubSeq(s, i, i) ELSE ""

\* a pseudo-random value of the input
Weight(s) == (Len(s) + Digit(CharAt(s, Len(s))) + Digit(CharAt(s, Len(s) - 1))) % 8

\* number of leading '0' characters of the digest
LeadingZeros(s) ==
    LET w == Weight(s)
    IN  IF w = 0 THEN 3 ELSE IF w = 4 THEN 2 ELSE IF w % 2 = 0 THEN 1 ELSE 0

RECURSIVE Zeros(_)
Zeros(n) == IF n <= 0 THEN "" ELSE "0" \o Zeros(n - 1)

Sha256(s) == Zeros(LeadingZeros(s)) \o "h(" \o s \o ")"

----------------------------------------------------------------------------
(* Transaction *)

NoSignature == [kind |-> "none", key |-> "", msg |-> "", rnd |-> 0]
EmptySignature == [kind |-> "empty", key |-> "", msg |-> "", rnd |-> 0]
GarbageSignature == [kind |-> "garbage", key |-> "", msg |-> "", rnd |-> 0]

Transaction(from, to, amt) ==
    [from_address |-> from, to_address |-> to, amount |-> amt,
     signature |-> NoSignature]

\* f"{x}" of an Optional[str]
Fmt(a) == IF a = None THEN "None" ELSE a

tx_string(t) == Fmt(t.from_address) \o t.to_address \o ToString(t.amount)

tx_compute_hash(t) == Sha256(tx_string(t))

\* private_key.sign(msg, ECDSA(SHA256)) with random value r
EcdsaSign(k, msg, r) == [kind |-> "sig", key |-> k, msg |-> msg, rnd |-> r]

sign(t, k, r) == [t EXCEPT !.signature = EcdsaSign(k, tx_compute_hash(t), r)]

\* bytes.fromhex + from_encoded_point succeed
IsPublicKey(a) == \E k \in Keys : address(k) = a

\* public_key.verify(sig, msg) does not raise InvalidSignature
EcdsaVerify(a, sig, msg) ==
    /\ sig.kind = "sig"
    /\ address(sig.key) = a
    /\ sig.msg = msg

\* `not self.signature`
Falsy(sig) == sig.kind \in {"none", "empty"}

\* is_valid without the coinbase shortcut
is_valid_NoCoinbase(t) ==
    IF Falsy(t.signature) THEN "MissingSignatureError"
    ELSE IF ~IsPublicKey(t.from_address) THEN "False"
    ELSE IF EcdsaVerify(t.from_address, t.signature, tx_compute_hash(t))
         THEN "True" ELSE "False"

is_valid(t) ==
    IF t.from_address = None THEN "True"
    ELSE IF Falsy(t.signature) THEN "MissingSignatureError"
    ELSE IF ~IsPublicKey(t.from_address) THEN "False"
    ELSE IF EcdsaVerify(t.from_address, t.signature, tx_compute_hash(t))
         THEN "True" ELSE "False"

----------------------------------------------------------------------------
(* Block *)

JsonStr(a) == IF a = None THEN "null" ELSE "\"" \o a \o "\""

\* default=str applied to the signature bytes
JsonSig(sig) ==
    CASE sig.kind = "none" -> "null"
      [] sig.kind = "empty" -> "\"b''\""
      [] sig.kind = "garbage" -> "\"b'??'\""
      [] OTHER -> "\"b'" \o sig.key \o ":" \o sig.msg \o ":" \o ToString(sig.rnd) \o "'\""

JsonTx(t) ==
    "{" \o JsonStr(t.from_address) \o ", " \o JsonStr(t.to_address) \o ", "
        \o ToString(t.amount) \o ", " \o JsonSig(t.signature) \o "}"

RECURSIVE JsonItems(_)
JsonItems(txs) ==
    IF txs = <<>> THEN ""
    ELSE IF Len(txs) = 1 THEN JsonTx(txs[1])
    ELSE JsonTx(txs[1]) \o ", " \o JsonItems(Tail(txs))

\* json.dumps([tx.__dict__ for tx in self.transactions], default=str)
JsonDumps(txs) == "[" \o JsonItems(txs) \o "]"

block_string(b) ==
    JsonDumps(b.transactions) \o b.previous_hash \o ToString(b.nonce)
        \o ToString(b.timestamp)

block_compute_hash(b) == Sha256(block_string(b))

\* Block.__init__ at wall-clock time ts
Block(txs, prev, ts) ==
    LET b0 == [transactions |-> txs, previous_hash |-> prev, timestamp |-> ts,
               nonce |-> 1, hash |-> ""]
    IN  [b0 EXCEPT !.hash = block_compute_hash(b0)]

get_answer(d) == Zeros(d)

\* s[:d] for d >= 0
Prefix(s, d) == IF d <= 0 THEN "" ELSE SubSeq(s, 1, IF d < Len(s) THEN d ELSE Len(s))

\* "True", "False", or the error raised by the first transaction that raises
RECURSIVE validate_transactions(_)
validate_transactions(txs) ==
    IF txs = <<>> THEN "True"
    ELSE LET r == is_valid(Head(txs))
         IN  IF r = "True" THEN validate_transactions(Tail(txs)) ELSE r

\* a loop that leaves after its first increment without recomputing the hash
MineLoop_StaleHash(b, d) ==
    LET b1 == [b EXCEPT !.hash = block_compute_hash(b)]
    IN  IF Prefix(b1.hash, d) # Zeros(d)
        THEN [err |-> "", block |-> [b1 EXCEPT !.nonce = b1.nonce + 1]]
        ELSE [err |-> "", block |-> b1]

\* a loop that tries every second nonce
RECURSIVE MineLoop_Skip(_, _)
MineLoop_Skip(b, d) ==
    LET b1 == [b EXCEPT !.hash = block_compute_hash(b)]
    IN  IF Prefix(b1.hash, d) # Zeros(d)
        THEN IF b1.nonce >= MaxNonce
             THEN [err |-> "NoReturn", block |-> b1]
             ELSE MineLoop_Skip([b1 EXCEPT !.nonce = b1.nonce + 2], d)
        ELSE [err |-> "", block |-> b1]

\* the while loop of Block.mine; "NoReturn" when the search passes MaxNonce
RECURSIVE MineLoop(_, _)
MineLoop(b, d) ==
    LET b1 == [b EXCEPT !.hash = block_compute_hash(b)]
    IN  IF Prefix(b1.hash, d) # get_answer(d)
        THEN IF b1.nonce >= MaxNonce
             THEN [err |-> "NoReturn", block |-> b1]
             ELSE LET b2 == [b1 EXCEPT !.nonce = b1.nonce + 1]
                  IN  MineLoop([b2 EXCEPT !.hash = block_compute_hash(b2)], d)
        ELSE [err |-> "", block |-> b1]

\* mine without the validation of the transactions
mine_Unvalidated(b, d) == MineLoop(b, d)

\* Block.mine: the outcome ("" is a normal return) and the block's fields after it
mine(b, d) ==
    LET v == validate_transactions(b.transactions)
    IN  IF v = "False" THEN [err |-> "InvalidTransactionError", block |-> b]
        ELSE IF v # "True" THEN [err |-> v, block |-> b]
        ELSE MineLoop(b, d)

----------------------------------------------------------------------------
(* Chain *)

NoBlock == [transactions |-> <<>>, previous_hash |-> "", timestamp |-> 0,
            nonce |-> 0, hash |-> ""]

big_bang(ts) == Block(<<>>, "", ts)

get_latest_block == blocks[chain[Len(chain)]]

\* Chain.validate_chain over the chain c of the heap h
RECURSIVE ValidateFrom(_, _, _)
ValidateFrom(h, c, i) ==
    IF i > Len(c) THEN "True"
    ELSE LET b == h[c[i]]
             v == validate_transactions(b.transactions)
         IN  IF v # "True" THEN v
             ELSE IF b.hash # block_compute_hash(b) THEN "False"
             ELSE IF b.previous_hash # h[c[i - 1]].hash THEN "False"
             ELSE ValidateFrom(h, c, i + 1)

\* a validate_chain that also holds every block to the current difficulty
validate_chain_of_Target(h, c) ==
    IF \E i \in 1..Len(c) : Prefix(h[c[i]].hash, difficulty) # get_answer(difficulty)
    THEN "False"
    ELSE IF Len(c) = 1
    THEN IF h[c[1]].hash # block_compute_hash(h[c[1]]) THEN "False" ELSE "True"
    ELSE ValidateFrom(h, c, 2)

validate_chain_of(h, c) ==
    IF Len(c) = 1
    THEN IF h[c[1]].hash # block_compute_hash(h[c[1]]) THEN "False" ELSE "True"
    ELSE ValidateFrom(h, c, 2)

validate_chain == validate_chain_of(blocks, chain)

----------------------------------------------------------------------------
(* Arguments the caller can build with the constructors, sign and field writes *)

\* t unsigned, or signed with any key
SignedStates(t) == {t} \cup {sign(t, k, r) : k \in Keys, r \in ChainRandoms}

\* transactions passed to add_transaction
TxInputs ==
    UNION {SignedStates(Transaction(f, t, 10)) : f \in Senders, t \in ChainRecipients}
    \cup {sign(Transaction("A1", "B", 0), "k1", r) : r \in ChainRandoms}

\* transaction batches passed to Block(...)
BatchInputs ==
    LET t == Transaction("A1", "B", 10)
    IN  {<<>>} \cup {<<u>> : u \in SignedStates(t)} \cup {<<t, sign(t, "k2", 0)>>}

\* the arguments that are accepted
ValidTxInputs == {t \in TxInputs : t.to_address # "" /\ is_valid(t) = "True"
                                   /\ t.from_address \notin {None, ""}}

----------------------------------------------------------------------------
(* The calls *)

NoTransaction == Transaction(None, "", 0)

\* int(time.time() * 1000): the clock ticks between two constructions of a Block
now == nblocks + 1

\* the state before a call, with what validate_chain() would have returned in it
Snapshot == [chain |-> chain, pool |-> pool, blocks |-> blocks,
             difficulty |-> difficulty, tx |-> tx, valid |-> validate_chain]

\* a completed call: name, outcome (err = "" is a normal return, res a returned
\* value), the Block id / pool index, difficulty or random value, address or key
\* and Transaction passed, and the state before it
Call(op, err, res, b, d, a, t) ==
    [op |-> op, err |-> err, res |-> res, b |-> b, d |-> d, a |-> a, t |-> t,
     pre |-> Snapshot]

\* the threads, and a thread that is in no call: op is the call a thread is in, pc
\* the statement it executes next, b its local new_block, a its reward address, and
\* alias says that new_block.transactions is the list object self.transaction_pool
Workers == 1..MaxWorkers
IdleWorker == [op |-> "", pc |-> "idle", b |-> 0, a |-> "", alias |-> FALSE]

\* the heap after list.append(t) on the pool: the blocks constructed from the pool
\* list (line 235 passes the list itself) see the new element
PoolAppend(t) ==
    [i \in 1..MaxBlocks |->
        IF \E w \in Workers : workers[w].alias /\ workers[w].b = i
        THEN [blocks[i] EXCEPT !.transactions = Append(@, t)]
        ELSE blocks[i]]

\* one more call is made
Tick == ncalls < MaxCalls /\ ncalls' = ncalls + 1

\* the state after Chain(difficulty), the caller holding the transaction t
InitWith(t) ==
    /\ tx = t
    /\ blocks = [i \in 1..MaxBlocks |-> IF i = 1 THEN big_bang(1) ELSE NoBlock]
    /\ nblocks = 1
    /\ chain = <<1>>
    /\ pool = <<>>
    /\ difficulty \in 0..MaxDifficulty
    /\ ntamper = 0
    /\ ncalls = 0
    /\ workers = [w \in Workers |-> IdleWorker]
    /\ accepted = <<>>
    /\ last = [op |-> "Chain", err |-> "", res |-> "", b |-> 0, d |-> 0, a |-> "",
               t |-> NoTransaction,
               pre |-> [chain |-> <<>>, pool |-> <<>>, blocks |-> <<>>,
                        difficulty |-> 0, tx |-> NoTransaction, valid |-> ""]]

Init == InitWith(NoTransaction)

\* the caller holds a freshly constructed transaction
InitTx == \E f \in Senders, t \in Recipients, a \in Amounts : InitWith(Transaction(f, t, a))

\* tx = Transaction(from, to, amount)
NewTransaction ==
    /\ Tick
    /\ \E f \in Senders, t \in Recipients, a \in Amounts :
           /\ tx' = Transaction(f, t, a)
           /\ last' = Call("Transaction", "", "", 0, 0, "", NoTransaction)
           /\ UNCHANGED <<blocks, nblocks, chain, pool, difficulty, ntamper, workers, accepted>>

\* tx.sign(private_key)
Sign ==
    /\ Tick
    /\ \E k \in Keys, r \in Randoms :
           /\ tx' = sign(tx, k, r)
           /\ last' = Call("sign", "", "", 0, r, k, NoTransaction)
           /\ UNCHANGED <<blocks, nblocks, chain, pool, difficulty, ntamper, workers, accepted>>

\* tx.is_valid()
IsValid ==
    /\ Tick
    /\ LET r == is_valid(tx)
       IN  /\ last' = IF r \in {"True", "False"}
                      THEN Call("is_valid", "", r, 0, 0, "", NoTransaction)
                      ELSE Call("is_valid", r, "", 0, 0, "", NoTransaction)
           /\ UNCHANGED <<tx, blocks, nblocks, chain, pool, difficulty, ntamper, workers, accepted>>

\* chain.set_difficulty(d)
SetDifficulty ==
    /\ Tick
    /\ \E d \in 0..MaxDifficulty :
           /\ difficulty' = d
           /\ last' = Call("set_difficulty", "", "", 0, d, "", NoTransaction)
           /\ UNCHANGED <<tx, blocks, nblocks, chain, pool, ntamper, workers, accepted>>

\* add_transaction with the signature checked before the addresses
add_transaction_err_SignatureFirst(t) ==
    LET v == is_valid(t)
    IN  IF v = "False" THEN "InvalidTransactionError"
        ELSE IF v # "True" THEN v
        ELSE IF t.from_address \in {None, ""} \/ t.to_address \in {None, ""}
             THEN "InvalidAddressError" ELSE ""

\* add_transaction without the signature check
add_transaction_err_NoSignatureCheck(t) ==
    IF t.from_address \in {None, ""} \/ t.to_address \in {None, ""}
    THEN "InvalidAddressError" ELSE ""

\* the outcome of chain.add_transaction(t)
add_transaction_err(t) ==
    IF t.from_address \in {None, ""} \/ t.to_address \in {None, ""}
    THEN "InvalidAddressError"
    ELSE LET v == is_valid(t)
         IN  IF v = "True" THEN ""
             ELSE IF v = "False" THEN "InvalidTransactionError" ELSE v

\* chain.add_transaction(t)
AddTransaction(T) ==
    /\ Tick
    /\ \E t \in T :
           LET e == add_transaction_err(t)
           IN  /\ e = "" => Len(pool) < MaxPool
               /\ pool' = IF e = "" THEN Append(pool, t) ELSE pool
               /\ blocks' = IF e = "" THEN PoolAppend(t) ELSE blocks
               /\ accepted' = IF e = "" THEN Append(accepted, t) ELSE accepted
               /\ last' = Call("add_transaction", e, "", 0, 0, "", t)
               /\ UNCHANGED <<tx, nblocks, chain, difficulty, ntamper, workers>>

\* chain.add_block_to_chain(blocks[b])
AddBlockToChain ==
    /\ Tick
    /\ \E b \in 1..nblocks :
           LET nb == [blocks[b] EXCEPT !.previous_hash = get_latest_block.hash]
               m == mine(nb, difficulty)
           IN  /\ m.err # "NoReturn"
               /\ m.err = "" => Len(chain) < MaxChain
               /\ blocks' = [blocks EXCEPT ![b] = m.block]
               /\ chain' = IF m.err = "" THEN Append(chain, b) ELSE chain
               /\ last' = Call("add_block_to_chain", m.err, "", b, 0, "", NoTransaction)
               /\ UNCHANGED <<tx, nblocks, pool, difficulty, ntamper, workers, accepted>>

\* the reward put in front of the pool
with_reward_First(p, a) == <<Transaction(None, a, miner_reward)>> \o p

\* the pool after the reward transaction for a is appended to it
with_reward(p, a) == Append(p, Transaction(None, a, miner_reward))

\* chain.mine_transaction_pool(a)
MineTransactionPool ==
    /\ Tick
    /\ \E a \in RewardAddresses :
           LET pool1 == with_reward(pool, a)
               new_block == Block(pool1, get_latest_block.hash, now)
               m == mine(new_block, difficulty)
           IN  /\ Len(pool) <= MaxPool
               /\ m.err # "NoReturn"
               /\ m.err = "" => (Len(chain) < MaxChain /\ nblocks < MaxBlocks)
               /\ IF m.err = ""
                  THEN /\ blocks' = [blocks EXCEPT ![nblocks + 1] = m.block]
                       /\ nblocks' = nblocks + 1
                       /\ chain' = Append(chain, nblocks + 1)
                       /\ pool' = <<>>
                  ELSE /\ pool' = pool1
                       /\ UNCHANGED <<blocks, nblocks, chain>>
               /\ last' = Call("mine_transaction_pool", m.err, "", 0, 0, a, NoTransaction)
               /\ UNCHANGED <<tx, difficulty, ntamper, workers, accepted>>

\* chain.validate_chain()
ValidateChain ==
    /\ Tick
    /\ LET r == validate_chain
       IN  /\ last' = IF r \in {"True", "False"}
                      THEN Call("validate_chain", "", r, 0, 0, "", NoTransaction)
                      ELSE Call("validate_chain", r, "", 0, 0, "", NoTransaction)
           /\ UNCHANGED <<tx, blocks, nblocks, chain, pool, difficulty, ntamper, workers, accepted>>

\* Block(txs, "x") built by the caller
NewBlock(B) ==
    /\ Tick
    /\ \E txs \in B :
           /\ nblocks < MaxBlocks
           /\ blocks' = [blocks EXCEPT ![nblocks + 1] = Block(txs, "x", now)]
           /\ nblocks' = nblocks + 1
           /\ last' = Call("Block", "", "", nblocks + 1, 0, "", NoTransaction)
           /\ UNCHANGED <<tx, chain, pool, difficulty, ntamper, workers, accepted>>

----------------------------------------------------------------------------
(* The Chain calls statement by statement, as threads sharing one Chain run them *)

At(w, op, pc) == workers[w].op = op /\ workers[w].pc = pc

\* lines 225-231: the reward transaction is appended to the pool
MinePoolReward(W) ==
    /\ Tick
    /\ \E w \in W, a \in RewardAddresses :
           /\ workers[w].pc = "idle"
           /\ pool' = with_reward(pool, a)
           /\ blocks' = PoolAppend(Transaction(None, a, miner_reward))
           /\ workers' = [workers EXCEPT ![w] =
                  [op |-> "mine_transaction_pool", pc |-> "construct", b |-> 0,
                   a |-> a, alias |-> FALSE]]
           /\ last' = Call("mine_transaction_pool:reward", "", "", 0, 0, a, NoTransaction)
           /\ UNCHANGED <<tx, nblocks, chain, difficulty, ntamper, accepted>>

\* lines 234-237: new_block = Block(self.transaction_pool, self.get_latest_block().hash)
MinePoolConstruct(W) ==
    \E w \in W :
        /\ At(w, "mine_transaction_pool", "construct")
        /\ nblocks < MaxBlocks
        /\ blocks' = [blocks EXCEPT ![nblocks + 1] = Block(pool, get_latest_block.hash, now)]
        /\ nblocks' = nblocks + 1
        /\ workers' = [workers EXCEPT ![w].pc = "mine", ![w].b = nblocks + 1,
                                      ![w].alias = TRUE]
        /\ last' = Call("mine_transaction_pool:construct", "", "", nblocks + 1, 0,
                        workers[w].a, NoTransaction)
        /\ UNCHANGED <<tx, chain, pool, difficulty, ntamper, ncalls, accepted>>

\* line 215: new_block.previous_hash = self.get_latest_block().hash, for a block
\* the caller has built and not yet appended (the new_block of a running
\* mine_transaction_pool is local to that call)
AddBlockLink(W) ==
    /\ Tick
    /\ \E w \in W, b \in 1..nblocks :
           /\ workers[w].pc = "idle"
           /\ \A i \in 1..Len(chain) : chain[i] # b
           /\ \A v \in Workers : workers[v].op = "mine_transaction_pool" => workers[v].b # b
           /\ blocks' = [blocks EXCEPT ![b].previous_hash = get_latest_block.hash]
           /\ workers' = [workers EXCEPT ![w] =
                  [op |-> "add_block_to_chain", pc |-> "mine", b |-> b, a |-> "",
                   alias |-> FALSE]]
           /\ last' = Call("add_block_to_chain:link", "", "", b, 0, "", NoTransaction)
           /\ UNCHANGED <<tx, nblocks, chain, pool, difficulty, ntamper, accepted>>

\* lines 217 and 239: new_block.mine(self.difficulty); an error ends the call
MineStep(W) ==
    \E w \in W :
        /\ workers[w].pc = "mine"
        /\ LET m == mine(blocks[workers[w].b], difficulty)
           IN  /\ m.err # "NoReturn"
               /\ blocks' = [blocks EXCEPT ![workers[w].b] = m.block]
               /\ workers' = [workers EXCEPT ![w] =
                      IF m.err = "" THEN [@ EXCEPT !.pc = "append"] ELSE IdleWorker]
               /\ last' = Call(workers[w].op \o ":mine", m.err, "", workers[w].b, 0,
                               workers[w].a, NoTransaction)
        /\ UNCHANGED <<tx, nblocks, chain, pool, difficulty, ntamper, ncalls, accepted>>

\* lines 219 and 242: self.chain.append(new_block)
AppendStep(W) ==
    \E w \in W :
        /\ workers[w].pc = "append"
        /\ Len(chain) < MaxChain
        /\ chain' = Append(chain, workers[w].b)
        /\ workers' = [workers EXCEPT ![w] =
               IF @.op = "mine_transaction_pool" THEN [@ EXCEPT !.pc = "clear"]
               ELSE IdleWorker]
        /\ last' = Call(workers[w].op \o ":append", "", "", workers[w].b, 0,
                        workers[w].a, NoTransaction)
        /\ UNCHANGED <<tx, blocks, nblocks, pool, difficulty, ntamper, ncalls, accepted>>

\* line 244: self.transaction_pool = [], a new list object
MinePoolClear(W) ==
    \E w \in W :
        /\ At(w, "mine_transaction_pool", "clear")
        /\ pool' = <<>>
        /\ workers' = [v \in Workers |->
               IF v = w THEN IdleWorker ELSE [workers[v] EXCEPT !.alias = FALSE]]
        /\ last' = Call("mine_transaction_pool:clear", "", "", workers[w].b, 0,
                        workers[w].a, NoTransaction)
        /\ UNCHANGED <<tx, blocks, nblocks, chain, difficulty, ntamper, ncalls, accepted>>

----------------------------------------------------------------------------
(* Direct field writes by the caller (Python attributes are public) *)

\* t with exactly one field changed
FieldWrites(t, S, R, G) ==
    ({[t EXCEPT !.from_address = f] : f \in S}
     \cup {[t EXCEPT !.to_address = r] : r \in R}
     \cup {[t EXCEPT !.amount = a] : a \in Amounts}
     \cup {[t EXCEPT !.signature = g] : g \in G})
    \ {t}

\* the writes made to a transaction that a pool or a block holds
HeldWrites(t) ==
    FieldWrites(t, {None, "A1"}, ChainRecipients, {NoSignature, GarbageSignature})

\* b with exactly one field other than hash changed
BlockWrites(b) ==
    ({[b EXCEPT !.previous_hash = p] : p \in {"", "x"}}
     \cup {[b EXCEPT !.nonce = n] : n \in TamperedNonces}
     \cup {[b EXCEPT !.timestamp = ts] : ts \in Timestamps}
     \cup UNION {{[b EXCEPT !.transactions[j] = t] :
                     t \in HeldWrites(b.transactions[j])} :
                 j \in 1..Len(b.transactions)})
    \ {b}

\* tx.<field> = value
TamperTx ==
    /\ Tick
    /\ \E t \in FieldWrites(tx, Senders, Recipients,
                             {NoSignature, EmptySignature, GarbageSignature}) :
           /\ tx' = t
           /\ last' = Call("write_tx", "", "", 0, 0, "", NoTransaction)
           /\ UNCHANGED <<blocks, nblocks, chain, pool, difficulty, ntamper, workers, accepted>>

\* chain.transaction_pool[i].<field> = value
TamperPool ==
    /\ Tick
    /\ ntamper < MaxTamper
    /\ \E i \in 1..Len(pool) : \E t \in HeldWrites(pool[i]) :
           /\ ntamper' = ntamper + 1
           /\ pool' = [pool EXCEPT ![i] = t]
           /\ last' = Call("write_pool", "", "", i, 0, "", NoTransaction)
           /\ UNCHANGED <<tx, blocks, nblocks, chain, difficulty, workers, accepted>>

\* blocks[b].<field> = value, the stored hash left as it is
TamperBlock ==
    /\ Tick
    /\ ntamper < MaxTamper
    /\ \E b \in 1..nblocks : \E nb \in BlockWrites(blocks[b]) :
           /\ ntamper' = ntamper + 1
           /\ blocks' = [blocks EXCEPT ![b] = nb]
           /\ last' = Call("write_block", "", "", b, 0, "", NoTransaction)
           /\ UNCHANGED <<tx, nblocks, chain, pool, difficulty, workers, accepted>>

----------------------------------------------------------------------------
(* Specifications *)

\* the Chain calls, on arguments built by the constructors and sign
NextOps ==
    \/ NewBlock(BatchInputs)
    \/ SetDifficulty
    \/ AddTransaction(TxInputs)
    \/ AddBlockToChain
    \/ MineTransactionPool
    \/ ValidateChain

SpecOps == Init /\ [][NextOps]_vars

\* the calls, add_transaction on arguments it accepts, with the caller also
\* writing fields of the objects it has handed over
Next ==
    \/ NewBlock(BatchInputs)
    \/ SetDifficulty
    \/ AddTransaction(ValidTxInputs)
    \/ AddBlockToChain
    \/ MineTransactionPool
    \/ ValidateChain
    \/ TamperPool
    \/ TamperBlock

Spec == Init /\ [][Next]_vars

\* one Transaction: construction, field writes, sign, is_valid
NextTx ==
    \/ NewTransaction
    \/ Sign
    \/ TamperTx
    \/ IsValid

SpecTx == InitTx /\ [][NextTx]_vars

\* one thread inside mine_transaction_pool while others call add_transaction
NextRace ==
    \/ AddTransaction(ValidTxInputs)
    \/ MinePoolReward({1})
    \/ MinePoolConstruct({1})
    \/ MineStep({1})
    \/ AppendStep({1})
    \/ MinePoolClear({1})

SpecRace == Init /\ [][NextRace]_vars

\* the threads running mine_transaction_pool and add_block_to_chain side by side
NextWorkers ==
    \/ NewBlock(BatchInputs)
    \/ AddTransaction(ValidTxInputs)
    \/ MinePoolReward(Workers)
    \/ MinePoolConstruct(Workers)
    \/ AddBlockLink(Workers)
    \/ MineStep(Workers)
    \/ AppendStep(Workers)
    \/ MinePoolClear(Workers)

SpecWorkers == Init /\ [][NextWorkers]_vars

----------------------------------------------------------------------------
(* Properties *)

LastOf(c) == c[Len(c)]

\* the call that has just completed
Did(op) == last.op = op
Returned(op) == last.op = op /\ last.err = ""
Failed(op) == last.op = op /\ last.err # ""

\* the first n characters of s exist and are all '0'
AllZero(s, n) == \A i \in 1..n : i <= Len(s) /\ SubSeq(s, i, i) = "0"

\* the signature of t was made by the key of t's sender over t's current fields
Verifies(t) ==
    /\ t.signature.kind = "sig"
    /\ address(t.signature.key) = t.from_address
    /\ t.signature.msg = Sha256(Fmt(t.from_address) \o t.to_address \o ToString(t.amount))

\* C1: after any sequence of set_difficulty, add_transaction, mine_transaction_pool
\* and add_block_to_chain calls the genesis block has an empty previous_hash, every
\* later block links to the stored hash of the block before it, every stored hash
\* equals the recomputed hash, every transaction with a sender is validly signed,
\* and validate_chain() returns True.
C1_ChainInvariant ==
    /\ blocks[chain[1]].previous_hash = ""
    /\ \A i \in 2..Len(chain) :
          blocks[chain[i]].previous_hash = blocks[chain[i - 1]].hash
    /\ \A i \in 1..Len(chain) :
          /\ blocks[chain[i]].hash = block_compute_hash(blocks[chain[i]])
          /\ \A j \in 1..Len(blocks[chain[i]].transactions) :
                LET t == blocks[chain[i]].transactions[j]
                IN  t.from_address # None => Verifies(t)
    /\ validate_chain = "True"

\* C2: a write to one field (not the hash) of a block of the chain whose stored hash
\* was consistent makes the stored hash differ from the recomputed one, and
\* validate_chain() then returns False.
C2_TamperDetected ==
    (/\ Did("write_block")
     /\ \E i \in 1..Len(chain) : chain[i] = last.b
     /\ last.pre.blocks[last.b].hash = block_compute_hash(last.pre.blocks[last.b]))
    => /\ blocks[last.b].hash # block_compute_hash(blocks[last.b])
       /\ validate_chain = "False"

\* the transactions of the block that the last mining call worked on, and the
\* block after a call that returned
MinedTransactions ==
    IF last.op = "add_block_to_chain"
    THEN last.pre.blocks[last.b].transactions
    ELSE with_reward(last.pre.pool, last.a)
MinedAfter ==
    IF last.op = "add_block_to_chain" THEN blocks[last.b] ELSE blocks[LastOf(chain)]
Mined == last.op \in {"add_block_to_chain", "mine_transaction_pool"}

\* C3: when mine(difficulty) returns normally, from any starting nonce, the stored
\* hash is the hash of the block's fields and its first `difficulty` characters are '0'.
C3_MinedHash ==
    (Mined /\ last.err = "")
    => /\ MinedAfter.hash = block_compute_hash(MinedAfter)
       /\ AllZero(MinedAfter.hash, difficulty)

C3_Witness ==
    /\ Returned("add_block_to_chain")
    /\ difficulty = MaxDifficulty
    /\ last.pre.blocks[last.b].nonce = 3
    /\ blocks[last.b].nonce > 3

\* some transaction of txs has is_valid() = False
HasInvalid(txs) == \E j \in 1..Len(txs) : is_valid(txs[j]) = "False"

\* a transaction before the first invalid one has a sender and no signature
UnsignedBeforeInvalid(txs) ==
    \E i \in 1..Len(txs) :
        /\ txs[i].from_address # None /\ Falsy(txs[i].signature)
        /\ \A j \in 1..i : is_valid(txs[j]) # "False"

C4_Frame ==
    /\ Len(chain) = Len(last.pre.chain)
    /\ last.op = "add_block_to_chain" =>
          /\ blocks[last.b].nonce = last.pre.blocks[last.b].nonce
          /\ blocks[last.b].hash = last.pre.blocks[last.b].hash

\* C4 as stated: mining a block that contains a transaction whose is_valid() is False
\* fails with InvalidTransactionError, leaves nonce and hash alone and appends nothing.
C4_Original ==
    (Mined /\ HasInvalid(MinedTransactions))
    => (last.err = "InvalidTransactionError" /\ C4_Frame)

\* C4 amended: it fails, leaves nonce and hash alone and appends nothing; the error is
\* MissingSignatureError when an unsigned transaction with a sender comes before the
\* first invalid one, and InvalidTransactionError otherwise.
C4_MineRejectsInvalid ==
    (Mined /\ HasInvalid(MinedTransactions))
    => /\ last.err = IF UnsignedBeforeInvalid(MinedTransactions)
                     THEN "MissingSignatureError" ELSE "InvalidTransactionError"
       /\ C4_Frame

C4_Witness ==
    /\ Failed("mine_transaction_pool")
    /\ HasInvalid(last.pre.pool)
    /\ last.err = "InvalidTransactionError"

\* C5: a mine_transaction_pool call that fails because a pooled transaction is
\* invalid leaves the pool and the blocks as they were.
C5_NoPartialMutation ==
    (Failed("mine_transaction_pool") /\ HasInvalid(last.pre.pool))
    => /\ pool = last.pre.pool
       /\ chain = last.pre.chain
       /\ blocks = last.pre.blocks

\* C6: a successful mine_transaction_pool(a) appends exactly one block, whose
\* transactions are the old pool in order followed by the reward for a, whose
\* previous_hash is the old head's hash, and it empties the pool.
C6_MinePool ==
    Returned("mine_transaction_pool")
    => /\ Len(chain) = Len(last.pre.chain) + 1
       /\ SubSeq(chain, 1, Len(last.pre.chain)) = last.pre.chain
       /\ LET nb == blocks[LastOf(chain)]
              n == Len(last.pre.pool)
          IN  /\ Len(nb.transactions) = n + 1
              /\ \A j \in 1..n : nb.transactions[j] = last.pre.pool[j]
              /\ nb.transactions[n + 1].from_address = None
              /\ nb.transactions[n + 1].to_address = last.a
              /\ nb.transactions[n + 1].amount = miner_reward
              /\ nb.previous_hash = last.pre.blocks[LastOf(last.pre.chain)].hash
       /\ pool = <<>>

C6_Witness ==
    /\ Returned("mine_transaction_pool")
    /\ Len(last.pre.pool) = 2
    /\ last.pre.pool[1] # last.pre.pool[2]
    /\ Len(chain) = 2

ChainUnchanged == chain = last.pre.chain /\ blocks = last.pre.blocks

NoAddress(a) == a = None \/ a = ""

\* C7: add_transaction of a transaction whose sender or recipient is empty or absent
\* fails with InvalidAddressError, whatever its signature, and changes nothing.
C7_InvalidAddress ==
    (Did("add_transaction") /\ (NoAddress(last.t.from_address) \/ NoAddress(last.t.to_address)))
    => /\ last.err = "InvalidAddressError"
       /\ pool = last.pre.pool
       /\ ChainUnchanged

C7_Witness ==
    /\ Failed("add_transaction")
    /\ last.t.from_address = "A1"
    /\ last.t.to_address = ""
    /\ last.t.signature = NoSignature
    /\ last.err = "InvalidAddressError"

C8_Addressed == Did("add_transaction") /\ ~NoAddress(last.t.from_address)
                    /\ ~NoAddress(last.t.to_address)

C8_Success ==
    /\ pool = Append(last.pre.pool, last.t)
    /\ ChainUnchanged
    /\ difficulty = last.pre.difficulty

\* C8 as stated: with both addresses present add_transaction succeeds iff is_valid()
\* is true and otherwise fails with InvalidTransactionError, pool unchanged; on
\* success the pool is the old pool with tx appended, blocks and difficulty unchanged.
C8_Original ==
    C8_Addressed
    => IF is_valid(last.t) = "True"
       THEN last.err = "" /\ C8_Success
       ELSE last.err = "InvalidTransactionError" /\ pool = last.pre.pool

\* C8 amended: the failure is InvalidTransactionError when is_valid() returns False
\* and MissingSignatureError when is_valid() itself fails.
C8_AddTransaction ==
    C8_Addressed
    => IF Verifies(last.t)
       THEN last.err = "" /\ C8_Success
       ELSE /\ last.err = IF Falsy(last.t.signature) THEN "MissingSignatureError"
                          ELSE "InvalidTransactionError"
            /\ pool = last.pre.pool

C8_Witness ==
    /\ Returned("add_transaction")
    /\ Len(pool) = 2
    /\ pool[1] # pool[2]

\* C9: sign on a transaction that already carries a signature fails with
\* PreconditionError and leaves the signature as it was.
C9_SignOnce ==
    (Did("sign") /\ ~Falsy(last.pre.tx.signature))
    => /\ last.err = "PreconditionError"
       /\ tx.signature = last.pre.tx.signature

IsValidOutcome == IF last.err # "" THEN last.err ELSE last.res

\* C10 as stated: is_valid() fails exactly when the sender is present and the
\* signature is absent (None); otherwise it returns True for an absent sender and,
\* for a present sender, True iff the signature verifies.
C10_Original ==
    Did("is_valid")
    => IsValidOutcome =
          IF tx.from_address = None THEN "True"
          ELSE IF tx.signature = NoSignature THEN "MissingSignatureError"
          ELSE IF Verifies(tx) THEN "True" ELSE "False"

\* C10 amended: is_valid() fails exactly when the sender is present and the
\* signature is absent or empty.
C10_IsValid ==
    Did("is_valid")
    => IsValidOutcome =
          IF tx.from_address = None THEN "True"
          ELSE IF tx.signature \in {NoSignature, EmptySignature}
               THEN "MissingSignatureError"
          ELSE IF Verifies(tx) THEN "True" ELSE "False"

C10_Witness ==
    /\ Did("is_valid")
    /\ last.res = "False"
    /\ tx.from_address = "zz"
    /\ tx.signature.kind = "sig"

\* the predicate of the chain that validate_chain() is to compute
ChainPredicate ==
    IF Len(chain) = 1
    THEN blocks[chain[1]].hash = block_compute_hash(blocks[chain[1]])
    ELSE \A i \in 2..Len(chain) :
            LET b == blocks[chain[i]]
            IN  /\ \A j \in 1..Len(b.transactions) : is_valid(b.transactions[j]) = "True"
                /\ b.hash = block_compute_hash(b)
                /\ b.previous_hash = blocks[chain[i - 1]].hash

\* C11: on any chain, tampered or not, validate_chain() returns True when the chain
\* predicate holds (genesis-only: the genesis hash is consistent; otherwise every
\* block after the genesis has valid transactions, a consistent hash and a
\* previous_hash equal to its predecessor's stored hash) and returns False when it
\* does not.
C11_ValidateComputes ==
    validate_chain = IF ChainPredicate THEN "True" ELSE "False"

\* C12: set_difficulty(d) sets the difficulty to d and changes nothing else: chain,
\* blocks and pool are as before, and validate_chain() gives what it gave before the
\* call, also when blocks of the chain do not meet the new target; a block mined by
\* a later call meets the difficulty in force at that call.
C12_SetDifficulty ==
    /\ Did("set_difficulty")
       => /\ difficulty = last.d
          /\ chain = last.pre.chain
          /\ blocks = last.pre.blocks
          /\ pool = last.pre.pool
          /\ validate_chain = last.pre.valid
    /\ (Mined /\ last.err = "")
       => /\ difficulty = last.pre.difficulty
          /\ AllZero(MinedAfter.hash, last.pre.difficulty)

C12_Witness ==
    /\ Did("set_difficulty")
    /\ last.d > last.pre.difficulty
    /\ Len(chain) >= 2
    /\ \E i \in 2..Len(chain) : ~AllZero(blocks[chain[i]].hash, difficulty)
    /\ validate_chain = "True"

\* C13: every call leaves the chain as it was or extends it (the chain before the
\* call is a prefix of the chain after it), and changes no field of a block that
\* was in the chain before the call.
C13_AppendOnly ==
    /\ Len(chain) >= Len(last.pre.chain)
    /\ SubSeq(chain, 1, Len(last.pre.chain)) = last.pre.chain
    /\ \A i \in 1..Len(last.pre.chain) :
          blocks[last.pre.chain[i]] = last.pre.blocks[last.pre.chain[i]]

\* the number of times t occurs in the sequence s
RECURSIVE Count(_, _)
Count(t, s) == IF s = <<>> THEN 0 ELSE (IF Head(s) = t THEN 1 ELSE 0) + Count(t, Tail(s))

\* the number of times t occurs in the blocks at the first n positions of the chain
RECURSIVE ChainCount(_, _)
ChainCount(t, n) ==
    IF n = 0 THEN 0
    ELSE Count(t, blocks[chain[n]].transactions) + ChainCount(t, n - 1)

AllIdle == \A w \in Workers : workers[w].pc = "idle"

\* C14: with add_transaction calls interleaved between the statements of a running
\* mine_transaction_pool, once that call has finished every accepted transaction is,
\* as often as it was accepted, either in the pool or in a block of the chain, and
\* every block of the chain that holds one has a stored hash computed over it.
C14_NoLossNoDuplicate ==
    AllIdle =>
        \A k \in 1..Len(accepted) :
            LET t == accepted[k]
            IN  /\ Count(t, pool) + ChainCount(t, Len(chain)) = Count(t, accepted)
                /\ \A i \in 1..Len(chain) :
                      Count(t, blocks[chain[i]].transactions) > 0
                      => blocks[chain[i]].hash = block_compute_hash(blocks[chain[i]])

\* C15: when threads run mine_transaction_pool / add_block_to_chain side by side, no
\* two blocks are appended with the same previous_hash, and every appended block's
\* previous_hash is the stored hash of the block immediately before it in the chain.
C15_NoStaleAppend ==
    /\ \A i \in 2..Len(chain) :
          blocks[chain[i]].previous_hash = blocks[chain[i - 1]].hash
    /\ \A i, j \in 2..Len(chain) :
          i # j => blocks[chain[i]].previous_hash # blocks[chain[j]].previous_hash

\* the block b with nonce n has a hash that meets the difficulty d
Qualifies(b, n, d) == AllZero(block_compute_hash([b EXCEPT !.nonce = n]), d)

\* the nonce search from b's nonce at difficulty d ends at the smallest qualifying
\* nonce from there on, if there is one within the cap, changing nonce and hash only
LeastNonce(b, d) ==
    LET m == MineLoop(b, d)
    IN  (\E n \in b.nonce..MaxNonce : Qualifies(b, n, d))
        => /\ m.err = ""
           /\ m.block.nonce >= b.nonce
           /\ Qualifies(b, m.block.nonce, d)
           /\ \A n \in b.nonce..(m.block.nonce - 1) : ~Qualifies(b, n, d)
           /\ m.block = [b EXCEPT !.nonce = m.block.nonce,
                                  !.hash = block_compute_hash(m.block)]

\* the nonce of the block at the entry of the mine of the last mining call
EntryNonce == IF last.op = "add_block_to_chain" THEN last.pre.blocks[last.b].nonce ELSE 1

\* the Block objects the last call constructed, wrote to or mined
Touched ==
    IF last.op \in {"Block", "write_block", "add_block_to_chain"} THEN {last.b}
    ELSE IF last.op = "Chain" \/ Returned("mine_transaction_pool") THEN {LastOf(chain)}
    ELSE {}

\* C16: the nonce search of mine is linear: on every block, as constructed, written
\* to or mined before, and at the difficulty in force, it stops at the smallest
\* nonce, from the block's nonce upwards, whose hash meets the target, skipping
\* none, and with difficulty 0 it stops at the nonce it started from; a mining call
\* that returned left the block at that nonce.
C16_LinearSearch ==
    /\ \A b \in Touched :
          /\ LeastNonce(blocks[b], difficulty)
          /\ LET m == MineLoop(blocks[b], 0)
             IN  m.err = "" /\ m.block.nonce = blocks[b].nonce
    /\ (Mined /\ last.err = "")
       => /\ MinedAfter.nonce >= EntryNonce
          /\ Qualifies(MinedAfter, MinedAfter.nonce, last.pre.difficulty)
          /\ \A n \in EntryNonce..(MinedAfter.nonce - 1) :
                ~Qualifies(MinedAfter, n, last.pre.difficulty)

C16_Witness ==
    /\ Returned("mine_transaction_pool")
    /\ difficulty = MaxDifficulty
    /\ blocks[LastOf(chain)].nonce >= 3

\* C17: every Block object that has been constructed, in the chain or not, has a
\* stored hash equal to the hash of its current fields after every completed Chain
\* call, also after an add_block_to_chain that failed in the validation of the
\* block's transactions.
C17_HashCached ==
    \A b \in 1..nblocks : blocks[b].hash = block_compute_hash(blocks[b])

\* C18: when is_valid() has accepted the signed transaction, every transaction
\* that differs from it in sender, recipient or amount has a different hash input,
\* and one of the same sender is not accepted by is_valid() with that signature.
C18_InjectiveInput ==
    (Did("is_valid") /\ last.res = "True" /\ tx.from_address # None)
    => \A f \in Senders, r \in Recipients, a \in Amounts :
          LET u == [from_address |-> f, to_address |-> r, amount |-> a,
                    signature |-> tx.signature]
          IN  <<f, r, a>> # <<tx.from_address, tx.to_address, tx.amount>>
              => /\ tx_string(u) # tx_string(tx)
                 /\ f = tx.from_address => is_valid(u) # "True"

====
